---- MODULE Spec2Model ----
(***************************************************************************)
(* A model of the newsrank Python SDK: the HTTP transport of _client.py    *)
(* (SyncClient, AsyncClient, _build_error, _clean_params), the top-level   *)
(* clients of __init__.py (NewsRank, AsyncNewsRank) and the resource       *)
(* facades that call the transport.  The connection pool (httpx.Client or  *)
(* httpx.AsyncClient) and the remote service are the environment.          *)
(***************************************************************************)
EXTENDS Integers, Sequences, FiniteSets, TLC

(***************************************************************************)
(* Bounds of the model.                                                    *)
(***************************************************************************)
\* Number of request tasks (threads, or asyncio tasks) of one client.
MaxTasks == 1
\* Number of times the model lets close() reach the pool.
MaxCloseCalls == 2
\* Number of request tasks of a client whose calls overlap.
MaxConcurrent == 2

(***************************************************************************)
(* Python values.  Every value has the same record shape, so that any two  *)
(* can be compared: kind is the Python type, str and num hold a scalar,    *)
(* items holds the members of a dict (by key) or of a list (by index,      *)
(* written as a string).                                                   *)
(***************************************************************************)
NoItems == [k \in {} |-> 0]

PyNone == [kind |-> "None", str |-> "", num |-> 0, items |-> NoItems]

PyStr(s) == [kind |-> "str", str |-> s, num |-> 0, items |-> NoItems]

PyInt(n) == [kind |-> "int", str |-> "", num |-> n, items |-> NoItems]

PyBool(b) == [kind |-> "bool", str |-> "", num |-> IF b THEN 1 ELSE 0, items |-> NoItems]

PyDict(f) == [kind |-> "dict", str |-> "", num |-> 0, items |-> f]

PyList(f) == [kind |-> "list", str |-> "", num |-> 0, items |-> f]

\* Python's truth value of v, as `x or y` and `not x` use it.
Truthy(v) ==
    CASE v.kind = "None" -> FALSE
      [] v.kind = "str" -> v.str # ""
      [] v.kind = "int" -> v.num # 0
      [] v.kind = "bool" -> v.num # 0
      [] OTHER -> DOMAIN v.items # {}

\* dict.get(key, default)
DictGet(d, key, default) == IF key \in DOMAIN d.items THEN d.items[key] ELSE default

(***************************************************************************)
(* Program constants of _client.py.                                        *)
(***************************************************************************)
DEFAULT_BASE_URL == "https://newsrank.ai/api/v1"

DEFAULT_TIMEOUT == 30

USER_AGENT == "newsrank-python/0.1.0"

\* The exception classes of _exceptions.py with their base classes.
ExceptionBases ==
    [NewsRankError |-> {"NewsRankError", "Exception"},
     AuthenticationError |-> {"AuthenticationError", "NewsRankError", "Exception"},
     PermissionError |-> {"PermissionError", "NewsRankError", "Exception"},
     NotFoundError |-> {"NotFoundError", "NewsRankError", "Exception"},
     RateLimitError |-> {"RateLimitError", "NewsRankError", "Exception"},
     ServerError |-> {"ServerError", "NewsRankError", "Exception"}]

\* isinstance(exc, NewsRankError) for an exception of class cls.
IsNewsRankError(cls) == cls \in DOMAIN ExceptionBases /\ "NewsRankError" \in ExceptionBases[cls]

\* _STATUS_MAP
STATUS_MAP ==
    [s \in {401, 403, 404, 429} |->
        CASE s = 401 -> "AuthenticationError"
          [] s = 403 -> "PermissionError"
          [] s = 404 -> "NotFoundError"
          [] s = 429 -> "RateLimitError"]

(***************************************************************************)
(* HTTP responses.  A response is a status code and the text of its body;  *)
(* response.content is empty exactly when the text is.                     *)
(***************************************************************************)
Response(status, text) == [status_code |-> status, text |-> text]

\* httpx.Response.is_success
is_success(response) == 200 <= response.status_code /\ response.status_code <= 299

\* The story payload of the ranked-stories scenario.
RankedStories ==
    PyDict([items |-> PyList([i \in {"0"} |->
        PyDict([id |-> PyInt(1), title |-> PyStr("A")])])])

\* The JSON decoder on the body texts the model's service sends: the decoded
\* value, or ok = FALSE where the decoder raises (json.JSONDecodeError).
json_loads(text) ==
    CASE text = "{\"error\":\"rate limited\"}" ->
            [ok |-> TRUE, value |-> PyDict([error |-> PyStr("rate limited")])]
      [] text = "{\"message\":\"quota exceeded\"}" ->
            [ok |-> TRUE, value |-> PyDict([message |-> PyStr("quota exceeded")])]
      [] text = "{\"error\":\"bad key\",\"message\":\"quota exceeded\"}" ->
            [ok |-> TRUE, value |-> PyDict([error |-> PyStr("bad key"),
                                            message |-> PyStr("quota exceeded")])]
      [] text = "{\"error\":null,\"message\":\"quota exceeded\"}" ->
            [ok |-> TRUE, value |-> PyDict([error |-> PyNone,
                                            message |-> PyStr("quota exceeded")])]
      [] text = "{}" -> [ok |-> TRUE, value |-> PyDict(NoItems)]
      [] text = "[1]" -> [ok |-> TRUE, value |-> PyList([i \in {"0"} |-> PyInt(1)])]
      [] text = "null" -> [ok |-> TRUE, value |-> PyNone]
      [] text = "{\"items\":[{\"id\":1,\"title\":\"A\"}]}" ->
            [ok |-> TRUE, value |-> RankedStories]
      [] OTHER -> [ok |-> FALSE, value |-> PyNone]

(***************************************************************************)
(* Exceptions.  cls is the class; message, status_code and body are the    *)
(* attributes NewsRankError.__init__ sets (an exception of another class   *)
(* has none of them, and the fields are then None).                        *)
(***************************************************************************)
NewsRankError(cls, message, status_code, body) ==
    [cls |-> cls, message |-> message, status_code |-> status_code, body |-> body]

\* An exception that is not of this library: the decoder's, httpx's.
ForeignError(cls) ==
    [cls |-> cls, message |-> PyNone, status_code |-> PyNone, body |-> PyNone]

NoException == ForeignError("")

\* _build_error without its except clause: the decoder's error escapes.
build_error_uncaught(response) ==
    LET status == response.status_code
        parsed == json_loads(response.text)
        fallback == PyStr("API request failed with status " \o ToString(status))
        message == IF parsed.value.kind = "dict"
                   THEN DictGet(parsed.value, "error",
                                DictGet(parsed.value, "message", fallback))
                   ELSE fallback
    IN  IF ~parsed.ok THEN ForeignError("JSONDecodeError")
        ELSE IF status \in DOMAIN STATUS_MAP
        THEN NewsRankError(STATUS_MAP[status], message, PyInt(status), parsed.value)
        ELSE IF 500 <= status /\ status < 600
        THEN NewsRankError("ServerError", message, PyInt(status), parsed.value)
        ELSE NewsRankError("NewsRankError", message, PyInt(status), parsed.value)

\* _build_error taking `message` before `error`.
build_error_message_first(response) ==
    LET status == response.status_code
        parsed == json_loads(response.text)
        fallback == PyStr("API request failed with status " \o ToString(status))
        body == IF parsed.ok THEN parsed.value ELSE PyStr(response.text)
        message == IF parsed.ok /\ body.kind = "dict"
                   THEN DictGet(body, "message", DictGet(body, "error", fallback))
                   ELSE fallback
    IN  IF status \in DOMAIN STATUS_MAP
        THEN NewsRankError(STATUS_MAP[status], message, PyInt(status), body)
        ELSE IF 500 <= status /\ status < 600
        THEN NewsRankError("ServerError", message, PyInt(status), body)
        ELSE NewsRankError("NewsRankError", message, PyInt(status), body)

\* _build_error classifying every status from 400 up as a server error.
build_error_wide_server(response) ==
    LET status == response.status_code
        parsed == json_loads(response.text)
        fallback == PyStr("API request failed with status " \o ToString(status))
        body == IF parsed.ok THEN parsed.value ELSE PyStr(response.text)
        message == IF parsed.ok /\ body.kind = "dict"
                   THEN DictGet(body, "error", DictGet(body, "message", fallback))
                   ELSE fallback
    IN  IF status \in DOMAIN STATUS_MAP
        THEN NewsRankError(STATUS_MAP[status], message, PyInt(status), body)
        ELSE IF 400 <= status
        THEN NewsRankError("ServerError", message, PyInt(status), body)
        ELSE NewsRankError("NewsRankError", message, PyInt(status), body)

\* _build_error(response): the exception `raise _build_error(response)` raises.
\* The try block decodes the body and, for a dict, reads the message; the
\* except clause (the decoder raised) keeps the fallback message and takes the
\* raw text as the body.
build_error(response) ==
    LET status == response.status_code
        parsed == json_loads(response.text)
        fallback == PyStr("API request failed with status " \o ToString(status))
        body == IF parsed.ok THEN parsed.value ELSE PyStr(response.text)
        message == IF parsed.ok /\ body.kind = "dict"
                   THEN DictGet(body, "error", DictGet(body, "message", fallback))
                   ELSE fallback
    IN  IF status \in DOMAIN STATUS_MAP
        THEN NewsRankError(STATUS_MAP[status], message, PyInt(status), body)
        ELSE IF 500 <= status /\ status < 600
        THEN NewsRankError("ServerError", message, PyInt(status), body)
        ELSE NewsRankError("NewsRankError", message, PyInt(status), body)

\* _clean_params dropping every falsy value instead of every None.
clean_params_falsy(params) ==
    PyDict([k \in {j \in DOMAIN params.items : Truthy(params.items[j])} |-> params.items[k]])

\* _clean_params(params)
clean_params(params) ==
    PyDict([k \in {j \in DOMAIN params.items : params.items[j].kind # "None"}
               |-> params.items[k]])

(***************************************************************************)
(* The transport: SyncClient and AsyncClient.                              *)
(***************************************************************************)
NoHeaders == [k \in {} |-> ""]

\* A strip of one trailing "/" only.
rstrip_one_slash(s) ==
    IF Len(s) > 0 /\ SubSeq(s, Len(s), Len(s)) = "/" THEN SubSeq(s, 1, Len(s) - 1) ELSE s

\* str.rstrip("/")
RECURSIVE rstrip_slash(_)
rstrip_slash(s) ==
    IF Len(s) > 0 /\ SubSeq(s, Len(s), Len(s)) = "/"
    THEN rstrip_slash(SubSeq(s, 1, Len(s) - 1))
    ELSE s

\* httpx.Client(timeout=..., headers=...) as the constructors create it.
NewPool(timeout) ==
    [owner |-> "client",
     timeout |-> timeout,
     headers |-> [k \in {"User-Agent", "Accept"} |->
                     IF k = "User-Agent" THEN USER_AGENT ELSE "application/json"],
     closed |-> FALSE, close_calls |-> 0, used_after_close |-> FALSE]

\* A pool the caller built and passes as httpx_client: httpx's own defaults.
CallerPool ==
    [owner |-> "caller",
     timeout |-> 5,
     headers |-> NoHeaders,
     closed |-> FALSE, close_calls |-> 0, used_after_close |-> FALSE]

\* SyncClient.__init__: the fields of self, and the pool self._client.
\* base_url and httpx_client are None (PyNone) when not given.
SyncClient_init(api_key, base_url, timeout, httpx_client) ==
    [self |-> [api_key |-> api_key,
               base_url |-> rstrip_slash(IF Truthy(base_url) THEN base_url.str
                                         ELSE DEFAULT_BASE_URL),
               owns_client |-> (httpx_client = PyNone)],
     pool |-> IF httpx_client = PyNone THEN NewPool(timeout) ELSE CallerPool]

\* AsyncClient.__init__
AsyncClient_init(api_key, base_url, timeout, httpx_client) ==
    [self |-> [api_key |-> api_key,
               base_url |-> rstrip_slash(IF Truthy(base_url) THEN base_url.str
                                         ELSE DEFAULT_BASE_URL),
               owns_client |-> (httpx_client = PyNone)],
     pool |-> IF httpx_client = PyNone THEN NewPool(timeout) ELSE CallerPool]

\* The arguments of one call of request(), and the facade method that made
\* it ("request" when the transport is called directly).
Args(via, method, path, params, auth) ==
    [via |-> via, method |-> method, path |-> path, params |-> params, auth |-> auth]

NoArgs == Args("", "", "", PyNone, FALSE)

\* The HTTP call handed to the pool: self._client.request(method, url,
\* params=..., headers=...).
Call(method, url, params, headers) ==
    [method |-> method, url |-> url, params |-> params, headers |-> headers]

NoCall == Call("", "", PyNone, NoHeaders)

\* SyncClient.request up to the HTTP call: the URL, the per-call headers and
\* the cleaned query mapping.
SyncClient_request_call(self, args) ==
    Call(args.method,
         self.base_url \o args.path,
         clean_params(IF Truthy(args.params) THEN args.params ELSE PyDict(NoItems)),
         IF args.auth
         THEN [k \in {"Authorization"} |-> "Bearer " \o self.api_key]
         ELSE NoHeaders)

\* AsyncClient.request handing params to the pool without _clean_params.
AsyncClient_request_call_uncleaned(self, args) ==
    Call(args.method,
         self.base_url \o args.path,
         IF Truthy(args.params) THEN args.params ELSE PyDict(NoItems),
         IF args.auth
         THEN [k \in {"Authorization"} |-> "Bearer " \o self.api_key]
         ELSE NoHeaders)

\* AsyncClient.request up to the awaited HTTP call.
AsyncClient_request_call(self, args) ==
    Call(args.method,
         self.base_url \o args.path,
         clean_params(IF Truthy(args.params) THEN args.params ELSE PyDict(NoItems)),
         IF args.auth
         THEN [k \in {"Authorization"} |-> "Bearer " \o self.api_key]
         ELSE NoHeaders)

\* The headers of the HTTP request httpx sends for a call on pool p: the
\* pool's default headers, overlaid by the headers given with the call.
merged_headers(p, call) ==
    [k \in DOMAIN p.headers \cup DOMAIN call.headers |->
        IF k \in DOMAIN call.headers THEN call.headers[k] ELSE p.headers[k]]

\* The timeout httpx applies to a call on pool p: request() passes no
\* timeout with the call, so it is the one the pool was built with.
call_timeout(p) == p.timeout

\* How a call of request() ends: kind is "return" (with value) or "raise"
\* (with exc); json_calls counts the calls of response.json() it made.
Return(value, json_calls) ==
    [kind |-> "return", value |-> value, exc |-> NoException, json_calls |-> json_calls]

Raise(exc, json_calls) ==
    [kind |-> "raise", value |-> PyNone, exc |-> exc, json_calls |-> json_calls]

NoOutcome == [kind |-> "", value |-> PyNone, exc |-> NoException, json_calls |-> 0]

\* request() decoding every successful body, without the no-content test.
request_result_always_json(response) ==
    IF ~is_success(response)
    THEN Raise(build_error(response), 1)
    ELSE LET parsed == json_loads(response.text)
         IN  IF parsed.ok THEN Return(parsed.value, 1)
             ELSE Raise(ForeignError("JSONDecodeError"), 1)

\* request() falling back to the text of a body that is not JSON.
request_result_text_fallback(response) ==
    IF ~is_success(response)
    THEN Raise(build_error(response), 1)
    ELSE IF response.status_code = 204 \/ response.text = ""
    THEN Return(PyNone, 0)
    ELSE LET parsed == json_loads(response.text)
         IN  IF parsed.ok THEN Return(parsed.value, 1)
             ELSE Return(PyStr(response.text), 1)

\* request() returning an empty mapping where the body is a JSON null.
request_result_null_as_dict(response) ==
    IF ~is_success(response)
    THEN Raise(build_error(response), 1)
    ELSE IF response.status_code = 204 \/ response.text = ""
    THEN Return(PyNone, 0)
    ELSE LET parsed == json_loads(response.text)
         IN  IF parsed.ok
             THEN Return(IF Truthy(parsed.value) THEN parsed.value ELSE PyDict(NoItems), 1)
             ELSE Raise(ForeignError("JSONDecodeError"), 1)

\* SyncClient.request from the response on.
SyncClient_request_result(response) ==
    IF ~is_success(response)
    THEN Raise(build_error(response), 1)
    ELSE IF response.status_code = 204 \/ response.text = ""
    THEN Return(PyNone, 0)
    ELSE LET parsed == json_loads(response.text)
         IN  IF parsed.ok THEN Return(parsed.value, 1)
             ELSE Raise(ForeignError("JSONDecodeError"), 1)

\* AsyncClient.request from the awaited response on.
AsyncClient_request_result(response) ==
    IF ~is_success(response)
    THEN Raise(build_error(response), 1)
    ELSE IF response.status_code = 204 \/ response.text = ""
    THEN Return(PyNone, 0)
    ELSE LET parsed == json_loads(response.text)
         IN  IF parsed.ok THEN Return(parsed.value, 1)
             ELSE Raise(ForeignError("JSONDecodeError"), 1)

\* request() calling the pool again when the first call ends with a fault
\* (ending = 0), a 429 or a 5xx.
request_http_calls_retrying(ending) ==
    IF ending = 0 \/ ending = 429 \/ ending >= 500 THEN 2 ELSE 1

\* The HTTP calls one invocation of SyncClient.request makes on the pool,
\* given how the call it makes ends (the status of the response, 0 for a
\* fault): request() has one call site, outside any loop or handler.
SyncClient_request_http_calls(ending) == 1

\* The HTTP calls one invocation of AsyncClient.request makes on the pool.
AsyncClient_request_http_calls(ending) == 1

\* request() catching the fault of its HTTP call and raising a
\* NewsRankError without a status code in its place.
request_fault_wrapped(exc) ==
    Raise(NewsRankError("NewsRankError", PyStr(exc), PyNone, PyNone), 0)

\* SyncClient.request when the HTTP call raises exc: the call is in no try
\* block, so the exception leaves request() as it is.
SyncClient_request_fault(exc) == Raise(ForeignError(exc), 0)

\* AsyncClient.request when the awaited HTTP call raises exc.
AsyncClient_request_fault(exc) == Raise(ForeignError(exc), 0)

\* httpx's close(), as the client calls it: the pool counts the calls.
PoolClose(p) == [p EXCEPT !.closed = TRUE, !.close_calls = @ + 1]

\* close() without the ownership test.
close_unguarded(self, p) == PoolClose(p)

\* SyncClient.close: the pool after it.
SyncClient_close(self, p) == IF self.owns_client THEN PoolClose(p) ELSE p

\* AsyncClient.close: the pool after it.
AsyncClient_close(self, p) == IF self.owns_client THEN PoolClose(p) ELSE p

(***************************************************************************)
(* The resource facades.  Each method builds one params mapping and calls  *)
(* self._client.get(path, params=..., auth=...), which calls               *)
(* request("GET", path, params=params, auth=auth).                         *)
(***************************************************************************)
\* SyncClient.get / AsyncClient.get
Client_get(via, path, params, auth) == Args(via, "GET", path, params, auth)

\* A facade method wrapping what the transport returned in a mapping.
Facade_return_wrapped(outcome) ==
    IF outcome.kind = "return"
    THEN [outcome EXCEPT !.value = PyDict([data |-> outcome.value])]
    ELSE outcome

\* How a facade method ends, given how the transport's get() ended: every
\* method is "return self._client.get(...)" (awaited in the async classes),
\* and get() is "return self.request(...)".
Facade_return(outcome) == outcome

\* f"{id}" for an int or a str
FormatId(id) == IF id.kind = "int" THEN ToString(id.num) ELSE id.str

\* ArticlesResource.list / AsyncArticlesResource.list
ArticlesResource_list(limit, offset, category, keyword, source, content_status, date_from, date_to, sort_by, sort_order) ==
    Client_get("articles.list", "/items",
               PyDict([limit |-> limit, offset |-> offset, category |-> category,
                       keyword |-> keyword, source |-> source,
                       content_status |-> content_status, date_from |-> date_from,
                       date_to |-> date_to, sort_by |-> sort_by,
                       sort_order |-> sort_order]),
               TRUE)

\* articles.get sending an empty string for an argument that is absent.
ArticlesResource_get_defaulted(url_hash, slug) ==
    Client_get("articles.get", "/item",
               PyDict([url_hash |-> IF url_hash = PyNone THEN PyStr("") ELSE url_hash,
                       slug |-> IF slug = PyNone THEN PyStr("") ELSE slug]),
               TRUE)

\* ArticlesResource.get / AsyncArticlesResource.get
ArticlesResource_get(url_hash, slug) ==
    Client_get("articles.get", "/item", PyDict([url_hash |-> url_hash, slug |-> slug]), TRUE)

\* ArticlesResource.content / AsyncArticlesResource.content
ArticlesResource_content(url_hash, max_chars) ==
    Client_get("articles.content", "/content",
               PyDict([url_hash |-> url_hash, max_chars |-> max_chars]), TRUE)

\* StoriesResource.list / AsyncStoriesResource.list
StoriesResource_list(limit, offset, category) ==
    Client_get("stories.list", "/stories",
               PyDict([limit |-> limit, offset |-> offset, category |-> category]), TRUE)

\* StoriesResource.ranked / AsyncStoriesResource.ranked
StoriesResource_ranked(limit) ==
    Client_get("stories.ranked", "/stories/ranked", PyDict([limit |-> limit]), TRUE)

\* StoriesResource.get / AsyncStoriesResource.get
StoriesResource_get(id) ==
    Client_get("stories.get", "/stories/" \o FormatId(id), PyNone, TRUE)

\* StoriesResource.developments / AsyncStoriesResource.developments
StoriesResource_developments(id) ==
    Client_get("stories.developments", "/stories/" \o FormatId(id) \o "/developments",
               PyNone, TRUE)

\* StoriesResource.updates / AsyncStoriesResource.updates
StoriesResource_updates(id, since_ms) ==
    Client_get("stories.updates", "/stories/" \o FormatId(id) \o "/updates",
               PyDict([since_ms |-> since_ms]), TRUE)

\* SearchResource.articles / AsyncSearchResource.articles
SearchResource_articles(q, limit, offset) ==
    Client_get("search.articles", "/search",
               PyDict([q |-> q, limit |-> limit, offset |-> offset]), TRUE)

\* SearchResource.full / AsyncSearchResource.full
SearchResource_full(q, limit, offset) ==
    Client_get("search.full", "/search/full",
               PyDict([q |-> q, limit |-> limit, offset |-> offset]), TRUE)

\* SearchResource.suggest / AsyncSearchResource.suggest
SearchResource_suggest(q, limit) ==
    Client_get("search.suggest", "/search/suggest", PyDict([q |-> q, limit |-> limit]), TRUE)

\* EntitiesResource.list / AsyncEntitiesResource.list
EntitiesResource_list(q, type, subcategory, limit, offset) ==
    Client_get("entities.list", "/entities",
               PyDict([q |-> q, type |-> type, subcategory |-> subcategory,
                       limit |-> limit, offset |-> offset]),
               TRUE)

\* EntitiesResource.trending / AsyncEntitiesResource.trending
EntitiesResource_trending(limit) ==
    Client_get("entities.trending", "/entities/trending", PyDict([limit |-> limit]), TRUE)

\* EntitiesResource.politicians / AsyncEntitiesResource.politicians
EntitiesResource_politicians(limit, offset) ==
    Client_get("entities.politicians", "/entities/politicians",
               PyDict([limit |-> limit, offset |-> offset]), TRUE)

\* EntitiesResource.get / AsyncEntitiesResource.get
EntitiesResource_get(id) ==
    Client_get("entities.get", "/entities/" \o FormatId(id), PyNone, TRUE)

\* EntitiesResource.articles / AsyncEntitiesResource.articles
EntitiesResource_articles(id, limit, offset) ==
    Client_get("entities.articles", "/entities/" \o FormatId(id) \o "/articles",
               PyDict([limit |-> limit, offset |-> offset]), TRUE)

\* SourcesResource.list / AsyncSourcesResource.list
SourcesResource_list == Client_get("sources.list", "/sources", PyNone, TRUE)

\* SourcesResource.categories / AsyncSourcesResource.categories
SourcesResource_categories == Client_get("sources.categories", "/categories", PyNone, TRUE)

\* SourcesResource.tags / AsyncSourcesResource.tags
SourcesResource_tags == Client_get("sources.tags", "/tags", PyNone, TRUE)

\* SourcesResource.rankings / AsyncSourcesResource.rankings
SourcesResource_rankings == Client_get("sources.rankings", "/source-rankings", PyNone, TRUE)

\* GraphResource.entity_network / AsyncGraphResource.entity_network
GraphResource_entity_network(entity_id, depth, limit) ==
    Client_get("graph.entity_network", "/graph/entity-network",
               PyDict([entity_id |-> entity_id, depth |-> depth, limit |-> limit]), TRUE)

\* GraphResource.story_entity / AsyncGraphResource.story_entity
GraphResource_story_entity(story_id, limit) ==
    Client_get("graph.story_entity", "/graph/story-entity",
               PyDict([story_id |-> story_id, limit |-> limit]), TRUE)

\* GraphResource.topic_cluster / AsyncGraphResource.topic_cluster
GraphResource_topic_cluster(topic_id, limit) ==
    Client_get("graph.topic_cluster", "/graph/topic-cluster",
               PyDict([topic_id |-> topic_id, limit |-> limit]), TRUE)

\* MetaResource.related / AsyncMetaResource.related
MetaResource_related(url_hash, limit) ==
    Client_get("meta.related", "/related",
               PyDict([url_hash |-> url_hash, limit |-> limit]), TRUE)

\* MetaResource.stats / AsyncMetaResource.stats
MetaResource_stats == Client_get("meta.stats", "/stats", PyNone, TRUE)

\* MetaResource.version calling get without auth=False.
version_with_auth == Client_get("meta.version", "/version", PyNone, TRUE)

\* MetaResource.version / AsyncMetaResource.version
MetaResource_version == Client_get("meta.version", "/version", PyNone, FALSE)

\* MetaResource.usage / AsyncMetaResource.usage
MetaResource_usage(from_ms, to_ms) ==
    Client_get("meta.usage", "/usage", PyDict([from_ms |-> from_ms, to_ms |-> to_ms]), TRUE)

(***************************************************************************)
(* Inputs of the model: what callers pass and what the service answers.    *)
(***************************************************************************)
\* An object that is not None (the caller's httpx client).
PyObject(name) == [kind |-> "object", str |-> name, num |-> 0, items |-> NoItems]

\* Constructor arguments: api key, base URL override (or None), timeout.
CtorArgs ==
    {[api_key |-> "nrf_1", base_url |-> PyNone, timeout |-> DEFAULT_TIMEOUT],
     [api_key |-> "nrf_2", base_url |-> PyStr("https://h.test/api//"), timeout |-> 10]}

HttpxClientArgs == {PyNone, PyObject("httpx client")}

Flavors == {"sync", "async"}

\* Identifiers of path-parameterized routes: an integer id or a slug.
Ids == {PyInt(42), PyStr("a-story")}

\* The url_hash and slug arguments callers give articles.get: each absent or
\* present, the slug as an empty string.
UrlHashArgs == {PyNone, PyStr("abc123")}

SlugArgs == {PyNone, PyStr("")}

\* The calls facade methods make, for the argument values the model draws.
FacadeCalls ==
    {ArticlesResource_list(l, PyNone, PyStr(""), PyNone, PyNone, PyNone, PyNone, PyNone,
                           PyNone, PyStr("desc")) : l \in {PyNone, PyInt(0)}}
    \cup {ArticlesResource_get(h, g) : h \in UrlHashArgs, g \in SlugArgs}
    \cup {ArticlesResource_content(PyStr("abc123"), PyInt(0)),
          StoriesResource_list(PyInt(5), PyNone, PyNone)}
    \cup {StoriesResource_ranked(l) : l \in {PyNone, PyInt(5)}}
    \cup {StoriesResource_get(id) : id \in Ids}
    \cup {StoriesResource_developments(PyInt(42)),
          StoriesResource_updates(PyStr("a-story"), PyInt(0)),
          StoriesResource_updates(PyInt(42), PyNone),
          SearchResource_articles(PyStr("news"), PyNone, PyInt(0)),
          SearchResource_full(PyNone, PyInt(5), PyNone),
          SearchResource_suggest(PyStr(""), PyNone),
          EntitiesResource_list(PyNone, PyStr("person"), PyNone, PyNone, PyNone),
          EntitiesResource_trending(PyNone),
          EntitiesResource_politicians(PyInt(5), PyInt(0)),
          EntitiesResource_get(PyInt(42)),
          EntitiesResource_articles(PyStr("a-story"), PyNone, PyNone),
          SourcesResource_list, SourcesResource_categories, SourcesResource_tags,
          SourcesResource_rankings,
          GraphResource_entity_network(PyNone, PyNone, PyInt(5)),
          GraphResource_story_entity(PyInt(42), PyNone),
          GraphResource_topic_cluster(PyInt(0), PyNone),
          MetaResource_related(PyStr("abc123"), PyInt(5)),
          MetaResource_stats, MetaResource_version,
          MetaResource_usage(PyInt(0), PyNone)}

\* Params mappings of direct calls of request(): None, empty, all null,
\* and falsy values that are not null.
DirectParams ==
    {PyNone,
     PyDict(NoItems),
     PyDict([a |-> PyNone, b |-> PyNone]),
     PyDict([a |-> PyInt(0), b |-> PyStr(""), c |-> PyBool(FALSE), d |-> PyNone])}

\* Calls of request() made on the transport itself.
DirectCalls ==
    {Args("request", "GET", "/x", p, TRUE) : p \in DirectParams}
    \cup {Args("request", "POST", "/x", PyDict([a |-> PyInt(0), b |-> PyNone]), FALSE)}

Calls == FacadeCalls \cup DirectCalls

Statuses == {199, 200, 204, 299, 300, 401, 403, 404, 429, 499, 500, 599, 600}

Bodies ==
    {"",
     "not found",
     "{\"error\":\"rate limited\"}",
     "{\"message\":\"quota exceeded\"}",
     "{\"error\":\"bad key\",\"message\":\"quota exceeded\"}",
     "{\"error\":null,\"message\":\"quota exceeded\"}",
     "{}",
     "[1]",
     "null",
     "{\"items\":[{\"id\":1,\"title\":\"A\"}]}"}

Responses == {Response(s, b) : s \in Statuses, b \in Bodies}

\* The model runs one of two workloads, so that the calls and the responses
\* are each drawn from their full set without the product of the two: under
\* "calls" every call of Calls is made and the service answers from
\* FewResponses; under "responses" the calls are those of FewCalls and the
\* service answers with any response of Responses.  (A client with
\* overlapping tasks runs under "few": FewCalls and FewResponses.)
Workloads == {"calls", "responses"}

FewCalls ==
    {StoriesResource_ranked(PyInt(5)),
     MetaResource_version,
     Args("request", "GET", "/x", PyDict([a |-> PyInt(0), b |-> PyNone]), TRUE)}

FewResponses ==
    {Response(200, "{\"items\":[{\"id\":1,\"title\":\"A\"}]}"),
     Response(204, ""),
     Response(404, "not found"),
     Response(429, "{\"error\":\"rate limited\"}")}

CallsOf(w) == IF w = "calls" THEN Calls ELSE FewCalls

ResponsesOf(w) == IF w = "responses" THEN Responses ELSE FewResponses

NoResponse == Response(0, "")

\* Faults httpx raises when no response arrives.
Faults == {"ConnectError", "ReadTimeout"}

Tasks == 1..MaxTasks

(***************************************************************************)
(* State.                                                                  *)
(*   workload  which inputs this run draws (see Workloads)                 *)
(*   flavor  "sync" (NewsRank over SyncClient) or "async" (AsyncNewsRank   *)
(*           over AsyncClient)                                             *)
(*   ctor    the arguments the client was constructed with                 *)
(*   client  the top-level client's fields: the transport it holds and,    *)
(*           per facade, the transport that facade holds                   *)
(*   self    the transport's fields: api_key, base_url, owns_client        *)
(*   pool    self._client, the httpx client: its configuration, whether it *)
(*           is closed, how often the transport called its close(), and    *)
(*           whether a request was handed to it after it was closed        *)
(*   tasks   per task, where it is in request(): idle, or awaiting the     *)
(*           response of the call it made (request() reads none of its     *)
(*           arguments or locals after the call)                           *)
(*   caller  the caller's use of the client: outside, inside or after a    *)
(*           with block (and on which object), and its direct close()s     *)
(*   obs     the last operation and what it handed over or ended with;     *)
(*           for a call of request(): the transport it was made on and the *)
(*           headers and timeout httpx applied; for its end: the fault of  *)
(*           the HTTP call (if any), the HTTP calls the invocation made,   *)
(*           and what the facade method returned or raised; for a scoped   *)
(*           exit: the exception the block was left by (pending)           *)
(***************************************************************************)
VARIABLES workload, flavor, ctor, client, self, pool, tasks, caller, obs

vars == <<workload, flavor, ctor, client, self, pool, tasks, caller, obs>>

Obs(op, task, args, call, response, outcome) ==
    [op |-> op, task |-> task, args |-> args, call |-> call,
     response |-> response, outcome |-> outcome,
     transport |-> "", sent_headers |-> NoHeaders, sent_timeout |-> 0, fault |-> "",
     http_calls |-> 0, returned |-> NoOutcome, pending |-> NoException]

\* The seven resources of the top-level client.
Resources == {"articles", "stories", "search", "entities", "sources", "graph", "meta"}

\* The transport object NewsRank.__init__ / AsyncNewsRank.__init__ creates.
TransportRef == "self._client"

\* A constructor giving the meta facade a transport of its own.
NewsRank_facades_meta_apart(transport) ==
    [r \in Resources |-> IF r = "meta" THEN "another client" ELSE transport]

\* The facades NewsRank.__init__ / AsyncNewsRank.__init__ create: each is
\* constructed with self._client and keeps it as its _client.
NewsRank_facades(transport) == [r \in Resources |-> transport]

\* The resource of a facade method "resource.method".
ResourceOf(via) == CHOOSE r \in Resources : Len(via) > Len(r) /\ SubSeq(via, 1, Len(r) + 1) = r \o "."

\* The transport a call is made on: the one the facade holds, or for a
\* direct call of request() the client's own.
TransportOf(via) == IF via = "request" THEN client.transport ELSE client.facades[ResourceOf(via)]

\* NewsRank.__init__ / AsyncNewsRank.__init__: one transport from the
\* arguments, which every facade is bound to.
NewsRank_init(fl, api_key, base_url, timeout, httpx_client) ==
    IF fl = "sync"
    THEN SyncClient_init(api_key, base_url, timeout, httpx_client)
    ELSE AsyncClient_init(api_key, base_url, timeout, httpx_client)

\* The state after NewsRank(api_key, base_url=..., timeout=...,
\* httpx_client=...) or AsyncNewsRank(...), under workload w, for a caller
\* with n request tasks.
ConstructedFor(w, fl, c, hc, n) ==
    LET made == NewsRank_init(fl, c.api_key, c.base_url, c.timeout, hc)
    IN  /\ workload = w
        /\ flavor = fl
        /\ ctor = [api_key |-> c.api_key, base_url |-> c.base_url,
                   timeout |-> c.timeout, httpx_client |-> hc]
        /\ client = [transport |-> TransportRef, facades |-> NewsRank_facades(TransportRef)]
        /\ self = made.self
        /\ pool = made.pool
        /\ tasks = [t \in 1..n |-> [pc |-> "idle"]]
        /\ caller = [scope |-> "outside", on |-> "", closes |-> 0]
        /\ obs = Obs("init", 0, NoArgs, NoCall, NoResponse, NoOutcome)

Constructed(w, fl, c, hc) == ConstructedFor(w, fl, c, hc, MaxTasks)

Init ==
    \E w \in Workloads, fl \in Flavors, c \in CtorArgs, hc \in HttpxClientArgs :
        Constructed(w, fl, c, hc)

\* request() up to the HTTP call, in the client's flavor.
request_call(args) ==
    IF flavor = "sync" THEN SyncClient_request_call(self, args)
    ELSE AsyncClient_request_call(self, args)

\* request() handing out None while another call of the client is
\* outstanding, as a client with one shared response slot would.
request_result_shared(response) ==
    IF Cardinality({t \in DOMAIN tasks : tasks[t].pc = "awaiting"}) > 1
    THEN Return(PyNone, 0)
    ELSE SyncClient_request_result(response)

\* request() from the response on, in the client's flavor.
request_result(response) ==
    IF flavor = "sync" THEN SyncClient_request_result(response)
    ELSE AsyncClient_request_result(response)

\* The HTTP calls one invocation of request() makes, in the client's flavor.
request_http_calls(ending) ==
    IF flavor = "sync" THEN SyncClient_request_http_calls(ending)
    ELSE AsyncClient_request_http_calls(ending)

\* request() when its HTTP call raises, in the client's flavor.
request_fault(exc) ==
    IF flavor = "sync" THEN SyncClient_request_fault(exc) ELSE AsyncClient_request_fault(exc)

\* The observation of a call of request() handed to the pool.
ObsCall(op, t, args, outcome) ==
    [Obs(op, t, args, request_call(args), NoResponse, outcome)
        EXCEPT !.transport = TransportOf(args.via),
               !.sent_headers = merged_headers(pool, request_call(args)),
               !.sent_timeout = call_timeout(pool)]

\* The observation of the end of a call of request().
ObsEnd(op, t, response, fault, outcome) ==
    [Obs(op, t, NoArgs, NoCall, response, outcome)
        EXCEPT !.fault = fault,
               !.http_calls = request_http_calls(response.status_code),
               !.returned = Facade_return(outcome)]

\* A scoped exit or close that reaches the transport's close() twice.
transport_close_twice ==
    IF flavor = "sync" THEN SyncClient_close(self, SyncClient_close(self, pool))
    ELSE AsyncClient_close(self, AsyncClient_close(self, pool))

\* close() of the transport, in the client's flavor: what NewsRank.close,
\* AsyncNewsRank.close and the scoped exits forward to.
transport_close ==
    IF flavor = "sync" THEN SyncClient_close(self, pool) ELSE AsyncClient_close(self, pool)

\* Task t calls request(): the call is handed to the pool.  An open pool
\* sends it and the task waits for the response; a closed httpx client
\* raises RuntimeError, which request() does not catch.
Request(t, args) ==
    /\ tasks[t].pc = "idle"
    /\ IF pool.closed
       THEN /\ pool' = [pool EXCEPT !.used_after_close = TRUE]
            /\ obs' = [ObsCall("send_failed", t, args, request_fault("RuntimeError"))
                          EXCEPT !.fault = "RuntimeError",
                                 !.http_calls = request_http_calls(0),
                                 !.returned = Facade_return(request_fault("RuntimeError"))]
            /\ UNCHANGED tasks
       ELSE /\ tasks' = [tasks EXCEPT ![t] = [pc |-> "awaiting"]]
            /\ obs' = ObsCall("send", t, args, NoOutcome)
            /\ UNCHANGED pool
    /\ UNCHANGED <<workload, flavor, ctor, client, self, caller>>

\* The response of task t's call arrives and request() runs to its end.
Respond(t, response) ==
    /\ tasks[t].pc = "awaiting"
    /\ tasks' = [tasks EXCEPT ![t] = [pc |-> "idle"]]
    /\ obs' = ObsEnd("complete", t, response, "", request_result(response))
    /\ UNCHANGED <<workload, flavor, ctor, client, self, pool, caller>>

\* Task t's call fails before any response: httpx raises, and request(),
\* which has no handler around the call, lets the exception through.
Fault(t, exc) ==
    /\ tasks[t].pc = "awaiting"
    /\ tasks' = [tasks EXCEPT ![t] = [pc |-> "idle"]]
    /\ obs' = ObsEnd("fault", t, NoResponse, exc, request_fault(exc))
    /\ UNCHANGED <<workload, flavor, ctor, client, self, pool, caller>>

\* SyncClient.close / AsyncClient.close called on the transport.
Client_close ==
    /\ caller.closes < MaxCloseCalls
    /\ pool' = transport_close
    /\ caller' = [caller EXCEPT !.closes = @ + 1]
    /\ obs' = Obs("Client.close", 0, NoArgs, NoCall, NoResponse, Return(PyNone, 0))
    /\ UNCHANGED <<workload, flavor, ctor, client, self, tasks>>

\* NewsRank.close / AsyncNewsRank.close: self._client.close().
NewsRank_close ==
    /\ caller.closes < MaxCloseCalls
    /\ pool' = transport_close
    /\ caller' = [caller EXCEPT !.closes = @ + 1]
    /\ obs' = Obs("NewsRank.close", 0, NoArgs, NoCall, NoResponse, Return(PyNone, 0))
    /\ UNCHANGED <<workload, flavor, ctor, client, self, tasks>>

\* __enter__ / __aenter__ of the transport (on = "Client") or of the
\* top-level client (on = "NewsRank"): returns self.
Enter(on) ==
    /\ caller.scope = "outside"
    /\ caller' = [caller EXCEPT !.scope = "inside", !.on = on]
    /\ obs' = Obs(on \o ".enter", 0, NoArgs, NoCall, NoResponse, Return(PyNone, 0))
    /\ UNCHANGED <<workload, flavor, ctor, client, self, pool, tasks>>

\* A scoped exit that returns a true value: the exception is swallowed.
scoped_exit_suppressing(pending) == Return(PyNone, 0)

\* How the with statement ends after __exit__ / __aexit__, which return
\* None: normally when the block raised nothing, and otherwise by the
\* exception the block raised.
scoped_exit(pending) ==
    IF pending = NoException THEN Return(PyNone, 0) ELSE Raise(pending, 0)

\* The exception a with block is left by: none (exc = ""), the one the
\* request that just ended raised and the block did not catch
\* (exc = "request"), or one the caller's own code raised.
PendingOf(exc) ==
    CASE exc = "" -> NoException
      [] exc = "request" -> obs.outcome.exc
      [] OTHER -> ForeignError(exc)

\* __exit__ / __aexit__ at the end of the with block, left normally or by
\* an exception: close(), and None is returned, so the exception is not
\* suppressed.
Exit(on, exc) ==
    /\ caller.scope = "inside"
    /\ caller.on = on
    /\ exc = "request" => (obs.op \in {"complete", "fault", "send_failed"} /\ obs.outcome.kind = "raise")
    /\ pool' = transport_close
    /\ caller' = [caller EXCEPT !.scope = "exited", !.on = ""]
    /\ obs' = [Obs(on \o ".exit", 0, NoArgs, NoCall, NoResponse, scoped_exit(PendingOf(exc)))
                  EXCEPT !.pending = PendingOf(exc)]
    /\ UNCHANGED <<workload, flavor, ctor, client, self, tasks>>

Next ==
    \/ \E t \in DOMAIN tasks, args \in CallsOf(workload) : Request(t, args)
    \/ \E t \in DOMAIN tasks, response \in ResponsesOf(workload) : Respond(t, response)
    \/ \E t \in DOMAIN tasks, exc \in Faults : Fault(t, exc)
    \/ Client_close
    \/ NewsRank_close
    \/ \E on \in {"Client", "NewsRank"} : Enter(on)
    \/ \E on \in {"Client", "NewsRank"}, exc \in {"", "ValueError", "request"} : Exit(on, exc)

Spec == Init /\ [][Next]_vars

\* Base URL overrides: none, empty, one host path written with no, one and
\* two trailing slashes, and a lone slash.
BaseUrlArgs ==
    {PyNone, PyStr(""), PyStr("https://h.test/api"), PyStr("https://h.test/api/"),
     PyStr("https://h.test/api//"), PyStr("/")}

\* Clients constructed with each base URL override.
InitUrl ==
    \E fl \in Flavors, b \in BaseUrlArgs, hc \in HttpxClientArgs :
        Constructed("calls", fl, [api_key |-> "nrf_1", base_url |-> b, timeout |-> DEFAULT_TIMEOUT], hc)

SpecUrl == InitUrl /\ [][Next]_vars

\* Clients whose caller runs MaxConcurrent request tasks, on few calls and
\* few responses.
InitConcurrent ==
    \E fl \in Flavors, hc \in HttpxClientArgs :
        ConstructedFor("few", fl, [api_key |-> "nrf_1", base_url |-> PyNone, timeout |-> DEFAULT_TIMEOUT], hc, MaxConcurrent)

SpecConcurrent == InitConcurrent /\ [][Next]_vars

(***************************************************************************)
(* Properties.                                                             *)
(***************************************************************************)
Completed == obs.op = "complete"

Sent == obs.op \in {"send", "send_failed"}

Failed(status) == ~(200 <= status /\ status <= 299)

OwnedPool == ctor.httpx_client = PyNone

\* The error kind the status table of the specification gives a status.
KindOfStatus(status) ==
    CASE status = 401 -> "AuthenticationError"
      [] status = 403 -> "PermissionError"
      [] status = 404 -> "NotFoundError"
      [] status = 429 -> "RateLimitError"
      [] status \in 500..599 -> "ServerError"
      [] OTHER -> "NewsRankError"

\* C1: every response with a status outside 200-299 makes request raise an
\* error whose class is the one the status alone selects: 401, 403, 404 and
\* 429 their own class, 500..599 ServerError, any other status the base
\* class NewsRankError itself.
C1_ErrorKindByStatus ==
    (Completed /\ Failed(obs.response.status_code)) =>
        /\ obs.outcome.kind = "raise"
        /\ obs.outcome.exc.cls = KindOfStatus(obs.response.status_code)

\* A 4xx status outside the table was answered and the base class raised.
C1_Witness ==
    /\ Completed
    /\ obs.response.status_code = 499
    /\ obs.outcome.kind = "raise"
    /\ obs.outcome.exc.cls = "NewsRankError"

\* C2: the query mapping handed to the HTTP call has exactly the keys of
\* params whose value is not None, each with the value params gave it
\* (0, "" and False included), and so no key whose value is None.
C2_QueryDropsOnlyNone ==
    Sent =>
        LET given == obs.args.params.items
            query == obs.call.params.items
        IN  /\ obs.call.params.kind = "dict"
            /\ DOMAIN query = {k \in DOMAIN given : given[k] # PyNone}
            /\ \A k \in DOMAIN query : query[k] = given[k]

\* A mapping with a null entry and the falsy values 0, "" and False was sent.
C2_Witness ==
    /\ obs.op = "send"
    /\ DOMAIN obs.args.params.items = {"a", "b", "c", "d"}
    /\ obs.args.params.items["d"] = PyNone
    /\ DOMAIN obs.call.params.items = {"a", "b", "c"}
    /\ obs.call.params.items["a"] = PyInt(0)
    /\ obs.call.params.items["b"] = PyStr("")
    /\ obs.call.params.items["c"] = PyBool(FALSE)

\* C3: a call a facade method issues carries no Authorization header exactly
\* when its path is /version; on any other path the header is "Bearer "
\* followed by the api key the client was constructed with.
C3_AuthExceptVersion ==
    (Sent /\ obs.args.via # "request") =>
        /\ ("Authorization" \notin DOMAIN obs.call.headers) <=> (obs.args.path = "/version")
        /\ obs.args.path # "/version" =>
               obs.call.headers["Authorization"] = "Bearer " \o ctor.api_key

\* meta.version was called and its call went out without any header.
C3_Witness ==
    /\ obs.op = "send"
    /\ obs.args.via = "meta.version"
    /\ obs.call.url = self.base_url \o "/version"
    /\ DOMAIN obs.call.headers = {}

\* C4: a 2xx response with status 204 or an empty body makes request return
\* None (not an empty mapping) without any call of the JSON decoder.
C4_NoContentIsNone ==
    (/\ Completed
     /\ ~Failed(obs.response.status_code)
     /\ (obs.response.status_code = 204 \/ obs.response.text = "")) =>
        /\ obs.outcome.kind = "return"
        /\ obs.outcome.value = PyNone
        /\ obs.outcome.value # PyDict(NoItems)
        /\ obs.outcome.json_calls = 0

\* A 200 with an empty body was answered.
C4_Witness ==
    /\ Completed
    /\ obs.response = Response(200, "")
    /\ obs.outcome.kind = "return"

\* C5: a 2xx response other than 204 with a non-empty valid JSON body makes
\* request return the decoded value unchanged; stories.ranked(limit=5) issues
\* GET /stories/ranked with limit=5, and the body
\* {"items":[{"id":1,"title":"A"}]} comes back as exactly that mapping.
C5_JsonReturnedUnchanged ==
    /\ (/\ Completed
        /\ ~Failed(obs.response.status_code)
        /\ obs.response.status_code # 204
        /\ obs.response.text # ""
        /\ json_loads(obs.response.text).ok) =>
           /\ obs.outcome.kind = "return"
           /\ obs.outcome.value = json_loads(obs.response.text).value
           /\ obs.response.text = "{\"items\":[{\"id\":1,\"title\":\"A\"}]}" =>
                  obs.outcome.value =
                      PyDict([items |-> PyList([i \in {"0"} |->
                          PyDict([id |-> PyInt(1), title |-> PyStr("A")])])])
    /\ (Sent /\ obs.args = StoriesResource_ranked(PyInt(5))) =>
           /\ obs.call.method = "GET"
           /\ obs.call.url = self.base_url \o "/stories/ranked"
           /\ obs.call.params = PyDict([limit |-> PyInt(5)])

\* The ranked-stories body was answered with a 200 and returned.
C5_Witness ==
    /\ Completed
    /\ obs.response = Response(200, "{\"items\":[{\"id\":1,\"title\":\"A\"}]}")
    /\ obs.outcome.kind = "return"
    /\ obs.outcome.value.items["items"].items["0"].items["title"] = PyStr("A")

\* C6: the error of a non-2xx response has as message the body's `error`
\* field when the body is a JSON mapping that has one, else its `message`
\* field when it has one, else "API request failed with status <code>"; as
\* body the parsed JSON when the body parses, else the raw text.  A 429 with
\* {"error":"rate limited"} gives RateLimitError("rate limited") with
\* status_code 429 and the mapping as body; a 404 with the text "not found"
\* gives NotFoundError with the fallback message and body "not found".
C6_ErrorMessageAndBody ==
    (Completed /\ Failed(obs.response.status_code)) =>
        LET status == obs.response.status_code
            text == obs.response.text
            parsed == json_loads(text)
            mapping == parsed.ok /\ parsed.value.kind = "dict"
            fields == parsed.value.items
            exc == obs.outcome.exc
        IN  /\ obs.outcome.kind = "raise"
            /\ exc.message =
                 IF mapping /\ "error" \in DOMAIN fields THEN fields["error"]
                 ELSE IF mapping /\ "message" \in DOMAIN fields THEN fields["message"]
                 ELSE PyStr("API request failed with status " \o ToString(status))
            /\ exc.body = IF parsed.ok THEN parsed.value ELSE PyStr(text)
            /\ (status = 429 /\ text = "{\"error\":\"rate limited\"}") =>
                   exc = [cls |-> "RateLimitError",
                          message |-> PyStr("rate limited"),
                          status_code |-> PyInt(429),
                          body |-> PyDict([error |-> PyStr("rate limited")])]
            /\ (status = 404 /\ text = "not found") =>
                   exc = [cls |-> "NotFoundError",
                          message |-> PyStr("API request failed with status 404"),
                          status_code |-> PyInt(404),
                          body |-> PyStr("not found")]

\* A body with both fields was answered and `error` became the message.
C6_Witness ==
    /\ Completed
    /\ obs.response = Response(500, "{\"error\":\"bad key\",\"message\":\"quota exceeded\"}")
    /\ obs.outcome.exc.message = PyStr("bad key")

\* C7: whatever the body of a non-2xx response is, request ends by raising
\* an error of the NewsRankError family, never another exception.
C7_NoSecondaryError ==
    (Completed /\ Failed(obs.response.status_code)) =>
        /\ obs.outcome.kind = "raise"
        /\ IsNewsRankError(obs.outcome.exc.cls)

\* An error response whose body is JSON but no mapping was answered.
C7_Witness ==
    /\ Completed
    /\ obs.response = Response(500, "[1]")
    /\ obs.outcome.kind = "raise"
    /\ obs.outcome.exc.body.kind = "list"

\* C8: in a scoped use without direct close() calls, the client has not
\* closed the pool while the block runs, and once the block is left
\* (normally or by an exception) it has closed a pool it created exactly
\* once and a caller-supplied pool never.
C8_ScopedUseClosesOwnedOnce ==
    caller.closes = 0 =>
        /\ caller.scope \in {"outside", "inside"} =>
               (pool.close_calls = 0 /\ ~pool.closed)
        /\ (caller.scope = "exited" /\ OwnedPool) =>
               (pool.close_calls = 1 /\ pool.closed)
        /\ (caller.scope = "exited" /\ ~OwnedPool) =>
               (pool.close_calls = 0 /\ ~pool.closed)

\* The block of an owning top-level client was left by an exception.
C8_Witness ==
    /\ obs.op = "NewsRank.exit"
    /\ obs.outcome.kind = "raise"
    /\ caller.scope = "exited"
    /\ caller.closes = 0
    /\ OwnedPool
    /\ pool.close_calls = 1

\* C9: a transport that created its pool closes it at most once, exactly once
\* when torn down, and hands it no request after it was closed.
C9_OwnedClosedOnceNeverUsedAfter ==
    OwnedPool =>
        /\ pool.close_calls <= 1
        /\ (caller.scope = "exited" \/ caller.closes > 0) => pool.close_calls = 1
        /\ ~pool.used_after_close

\* C10: the client never closes a pool the caller supplied.
C10_BorrowedNeverClosed ==
    ~OwnedPool => (pool.close_calls = 0 /\ ~pool.closed /\ ~self.owns_client)

\* close() was called directly and the with block was left, on a client
\* with a caller-supplied pool.
C10_Witness ==
    /\ ~OwnedPool
    /\ caller.closes = MaxCloseCalls
    /\ caller.scope = "exited"
    /\ pool.close_calls = 0

Ended == obs.op \in {"complete", "fault", "send_failed"}

C12_FixedHeadersOnEveryCall ==
    obs.op = "send" =>
        /\ {"User-Agent", "Accept"} \subseteq DOMAIN obs.sent_headers
        /\ obs.sent_headers["User-Agent"] = USER_AGENT
        /\ obs.sent_headers["Accept"] = "application/json"
        /\ obs.args.auth =>
               /\ "Authorization" \in DOMAIN obs.sent_headers
               /\ obs.sent_headers["Authorization"] = "Bearer " \o ctor.api_key

\* C13: the two transports agree.  Constructed from the same arguments they
\* have the same fields and the same pool; for the same call they hand the
\* same HTTP call (method, URL, query mapping, headers) to the pool; for the
\* same response they return the same value or raise the same error (kind,
\* message, status_code, body), and for the same fault the same exception;
\* and close() leaves the same pool.  The client of either flavor does what
\* both do.
C13_SyncAsyncIdentical ==
    /\ SyncClient_init(ctor.api_key, ctor.base_url, ctor.timeout, ctor.httpx_client)
           = AsyncClient_init(ctor.api_key, ctor.base_url, ctor.timeout, ctor.httpx_client)
    /\ Sent =>
           /\ SyncClient_request_call(self, obs.args) = AsyncClient_request_call(self, obs.args)
           /\ obs.call = SyncClient_request_call(self, obs.args)
    /\ Completed =>
           /\ SyncClient_request_result(obs.response) = AsyncClient_request_result(obs.response)
           /\ obs.outcome = SyncClient_request_result(obs.response)
    /\ obs.fault # "" =>
           /\ SyncClient_request_fault(obs.fault) = AsyncClient_request_fault(obs.fault)
           /\ obs.outcome = SyncClient_request_fault(obs.fault)
    /\ Ended =>
           SyncClient_request_http_calls(obs.response.status_code)
               = AsyncClient_request_http_calls(obs.response.status_code)
    /\ SyncClient_close(self, pool) = AsyncClient_close(self, pool)

\* The async client raised NotFoundError for a plain-text 404.
C13_Witness ==
    /\ flavor = "async"
    /\ Completed
    /\ obs.response = Response(404, "not found")
    /\ obs.outcome.exc.cls = "NotFoundError"
    /\ obs.outcome.exc.body = PyStr("not found")

C15_EveryFailureIsClassified ==
    ((Completed /\ Failed(obs.response.status_code)) \/ obs.op = "fault") =>
        /\ obs.outcome.kind = "raise"
        /\ IsNewsRankError(obs.outcome.exc.cls)

\* A row of the endpoint table: the path (with the id of a path-parameterized
\* route between pre and post) and the names of the query parameters.
EndpointRow(pre, has_id, post, params) ==
    [pre |-> pre, has_id |-> has_id, post |-> post, params |-> params]

\* The endpoint table of the specification, by facade method.
EndpointOf(via) ==
    CASE via = "articles.list" ->
            EndpointRow("/items", FALSE, "", {"limit", "offset", "category", "keyword", "source", "content_status", "date_from", "date_to", "sort_by", "sort_order"})
      [] via = "articles.get" ->
            EndpointRow("/item", FALSE, "", {"url_hash", "slug"})
      [] via = "articles.content" ->
            EndpointRow("/content", FALSE, "", {"url_hash", "max_chars"})
      [] via = "stories.list" ->
            EndpointRow("/stories", FALSE, "", {"limit", "offset", "category"})
      [] via = "stories.ranked" ->
            EndpointRow("/stories/ranked", FALSE, "", {"limit"})
      [] via = "stories.get" ->
            EndpointRow("/stories/", TRUE, "", {})
      [] via = "stories.developments" ->
            EndpointRow("/stories/", TRUE, "/developments", {})
      [] via = "stories.updates" ->
            EndpointRow("/stories/", TRUE, "/updates", {"since_ms"})
      [] via = "search.articles" ->
            EndpointRow("/search", FALSE, "", {"q", "limit", "offset"})
      [] via = "search.full" ->
            EndpointRow("/search/full", FALSE, "", {"q", "limit", "offset"})
      [] via = "search.suggest" ->
            EndpointRow("/search/suggest", FALSE, "", {"q", "limit"})
      [] via = "entities.list" ->
            EndpointRow("/entities", FALSE, "", {"q", "type", "subcategory", "limit", "offset"})
      [] via = "entities.trending" ->
            EndpointRow("/entities/trending", FALSE, "", {"limit"})
      [] via = "entities.politicians" ->
            EndpointRow("/entities/politicians", FALSE, "", {"limit", "offset"})
      [] via = "entities.get" ->
            EndpointRow("/entities/", TRUE, "", {})
      [] via = "entities.articles" ->
            EndpointRow("/entities/", TRUE, "/articles", {"limit", "offset"})
      [] via = "sources.list" ->
            EndpointRow("/sources", FALSE, "", {})
      [] via = "sources.categories" ->
            EndpointRow("/categories", FALSE, "", {})
      [] via = "sources.tags" ->
            EndpointRow("/tags", FALSE, "", {})
      [] via = "sources.rankings" ->
            EndpointRow("/source-rankings", FALSE, "", {})
      [] via = "graph.entity_network" ->
            EndpointRow("/graph/entity-network", FALSE, "", {"entity_id", "depth", "limit"})
      [] via = "graph.story_entity" ->
            EndpointRow("/graph/story-entity", FALSE, "", {"story_id", "limit"})
      [] via = "graph.topic_cluster" ->
            EndpointRow("/graph/topic-cluster", FALSE, "", {"topic_id", "limit"})
      [] via = "meta.related" ->
            EndpointRow("/related", FALSE, "", {"url_hash", "limit"})
      [] via = "meta.stats" ->
            EndpointRow("/stats", FALSE, "", {})
      [] via = "meta.version" ->
            EndpointRow("/version", FALSE, "", {})
      [] via = "meta.usage" ->
            EndpointRow("/usage", FALSE, "", {"from_ms", "to_ms"})

\* An identifier as the caller wrote it.
IdText(id) == CASE id = PyInt(42) -> "42" [] id = PyStr("a-story") -> "a-story"

\* The paths of a row, over the identifiers callers supply.
PathsOf(row) ==
    IF row.has_id THEN {row.pre \o IdText(id) \o row.post : id \in Ids} ELSE {row.pre}

C17_NoPreValidation ==
    (Sent /\ obs.args.via # "request") =>
        /\ obs.call.method = "GET"
        /\ obs.call.url = self.base_url \o obs.args.path
        /\ obs.op = "send_failed" => pool.closed
        /\ obs.op = "send" => tasks[obs.task].pc = "awaiting"
        /\ obs.args.params # PyNone =>
               \A k \in DOMAIN obs.args.params.items :
                   IF obs.args.params.items[k] = PyNone
                   THEN k \notin DOMAIN obs.call.params.items
                   ELSE /\ k \in DOMAIN obs.call.params.items
                        /\ obs.call.params.items[k] = obs.args.params.items[k]
        /\ obs.args.via = "articles.get" =>
               /\ obs.args.path = "/item"
               /\ obs.args.params.items["url_hash"] \in UrlHashArgs
               /\ obs.args.params.items["slug"] \in SlugArgs

\* articles.get() with neither url_hash nor slug went out as GET /item with
\* an empty query.
C17_Witness ==
    /\ obs.op = "send"
    /\ obs.args.via = "articles.get"
    /\ obs.args.params = PyDict([url_hash |-> PyNone, slug |-> PyNone])
    /\ obs.call.method = "GET"
    /\ obs.call.url = self.base_url \o "/item"
    /\ obs.call.params = PyDict(NoItems)

\* The base URL a client constructed with override b is to store: b without
\* its trailing slashes, the default where b is not given; an empty b counts
\* as not given when empty_is_default, as an override otherwise.
StoredBaseUrl(b, empty_is_default) ==
    CASE b = PyNone -> "https://newsrank.ai/api/v1"
      [] b = PyStr("") -> IF empty_is_default THEN "https://newsrank.ai/api/v1" ELSE ""
      [] b = PyStr("/") -> ""
      [] b \in {PyStr("https://h.test/api"), PyStr("https://h.test/api/"),
                PyStr("https://h.test/api//")} -> "https://h.test/api"

C20_AsyncPoolClosedOnceNotInUse ==
    (flavor = "async" /\ OwnedPool) =>
        /\ pool.close_calls <= 1
        /\ ~(pool.closed /\ \E t \in DOMAIN tasks : tasks[t].pc = "awaiting")
        /\ ~pool.used_after_close

\* The configuration the constructor fixes: the transport's fields and the
\* pool, from the constructor's arguments alone.
Configured == NewsRank_init(flavor, ctor.api_key, ctor.base_url, ctor.timeout, ctor.httpx_client)

\* A step of one task's call leaves the transport's fields, the client, the
\* pool and every other task as they were.
OwnTaskOnly ==
    obs'.op \in {"send", "complete", "fault"} =>
        /\ self' = self /\ client' = client /\ pool' = pool
        /\ \A u \in DOMAIN tasks : u # obs'.task => tasks'[u] = tasks[u]

\* What every call and every end of a call is, whatever the other tasks do.
OwnInputsOnly ==
    /\ self = Configured.self
    /\ Sent =>
           /\ obs.call = SyncClient_request_call(Configured.self, obs.args)
           /\ obs.sent_headers = merged_headers(Configured.pool, obs.call)
    /\ Completed => obs.outcome = SyncClient_request_result(obs.response)
    /\ obs.op = "fault" => obs.outcome = SyncClient_request_fault(obs.fault)

\* C21: with several calls of one client outstanding, in any interleaving,
\* the HTTP call of each (URL, query mapping, headers) is a function of its
\* own arguments and of the configuration fixed at construction, its result
\* or error is a function of its own response or fault, and its steps change
\* nothing of the client and nothing of the other calls.
C21_ConcurrentCallsIndependent == []OwnInputsOnly /\ [][OwnTaskOnly]_vars

\* Task 1's call ended with an error while task 2's call, made on the same
\* client, was still outstanding.
C21_Witness ==
    /\ Cardinality(DOMAIN tasks) >= 2
    /\ Completed
    /\ obs.task = 1
    /\ obs.outcome.exc.cls = "NotFoundError"
    /\ tasks[2].pc = "awaiting"

\* C22: every HTTP call is made with the timeout given to the constructor
\* (30 seconds when none is given), on a pool the client created and on a
\* pool the caller supplied alike.
C22_CallsUseConstructionTimeout ==
    obs.op = "send" => obs.sent_timeout = ctor.timeout

\* C23: every NewsRankError raised for a response has a string as its
\* message and the status code of the response as its status_code, whatever
\* the body is, a mapping with a null error field included.
C23_MessageIsStringStatusIsResponse ==
    (Completed /\ obs.outcome.kind = "raise" /\ IsNewsRankError(obs.outcome.exc.cls)) =>
        /\ obs.outcome.exc.message.kind = "str"
        /\ obs.outcome.exc.status_code = PyInt(obs.response.status_code)

ScopedExit == obs.op \in {"Client.exit", "NewsRank.exit"}

\* C24: a failure of a request reaches the caller of the facade method as
\* the transport raised it; and a scoped exit of the transport or of the
\* top-level client, entered with the exception the block was left by, has
\* run close() (the pool is closed when owned) and ends by raising that same
\* exception, or normally when there was none.
C24_FailuresPropagateThroughScope ==
    /\ (Ended /\ obs.outcome.kind = "raise") => obs.returned = obs.outcome
    /\ ScopedExit =>
           /\ caller.scope = "exited"
           /\ pool.closed = OwnedPool
           /\ OwnedPool => pool.close_calls >= 1
           /\ IF obs.pending = NoException
              THEN obs.outcome = Return(PyNone, 0)
              ELSE /\ obs.outcome.kind = "raise"
                   /\ obs.outcome.exc = obs.pending

\* A block of the async top-level client was left by the RateLimitError of
\* a request; the exit closed the pool and the error went on to the caller.
C24_Witness ==
    /\ flavor = "async"
    /\ obs.op = "NewsRank.exit"
    /\ obs.pending.cls = "RateLimitError"
    /\ obs.pending.status_code = PyInt(429)
    /\ obs.outcome.kind = "raise"
    /\ obs.outcome.exc = obs.pending
    /\ OwnedPool
    /\ pool.closed

\* The body texts of the model that are not JSON.
NotJson == {"not found"}

\* C25: for a 2xx response other than 204 whose body is not empty and not
\* JSON, request() returns nothing and raises no NewsRankError: it raises
\* the decoder's exception, which has no status_code and no body.
C25_InvalidJsonOnSuccessRaisesDecoderError ==
    (Completed
        /\ ~Failed(obs.response.status_code)
        /\ obs.response.status_code # 204
        /\ obs.response.text \in NotJson) =>
        /\ obs.outcome.kind = "raise"
        /\ ~IsNewsRankError(obs.outcome.exc.cls)
        /\ obs.outcome.exc.cls = "JSONDecodeError"
        /\ obs.outcome.exc.status_code = PyNone
        /\ obs.outcome.exc.body = PyNone
        /\ obs.returned = obs.outcome

\* A 200 with the plain text "not found" ended in the decoder's exception.
C25_Witness ==
    /\ Completed
    /\ obs.response = Response(200, "not found")
    /\ obs.outcome.exc.cls = "JSONDecodeError"

====
